---- MODULE Spec2Model ----
(***************************************************************************)
(* The LXC/chroot aware ssh connection plugin (connection/                 *)
(* ssh-outoftheway.py) as a state machine.  One Connection object: its     *)
(* descriptor fields, the address it dials, the inherited session flags,   *)
(* and a record of what the most recent handler call did to the underlying *)
(* transport.                                                              *)
(*                                                                         *)
(* Text (commands, paths, names, process output) is a sequence of          *)
(* one-character strings.  The two-character element "%s" occurs only in   *)
(* format strings, where it is the conversion specifier.  The plugin is    *)
(* Python 2 code, so byte strings and ASCII text coincide.                 *)
(***************************************************************************)
EXTENDS Integers, Sequences, FiniteSets, TLC

VARIABLES
    container_type,     \* self.container_type
    container_name,     \* self.container_name
    physical_host,      \* self.physical_host
    chroot_path,        \* self.chroot_path
    remote_user,        \* self._play_context.remote_user
    host,               \* self.host, the address the transport dials
    remote_addr,        \* self._play_context.remote_addr
    connected,          \* self._connected
    persistent,         \* self._persistent
    lastOp,             \* the most recent handler call and what it issued
    pidChanged,         \* history: lastOp's PID lookup answered differently
                        \* from the lookup of the call right before it
    appliedHostvars     \* history: hostvars of the last override that took effect

descriptor == <<container_type, container_name, physical_host, chroot_path>>

vars ==
    <<container_type, container_name, physical_host, chroot_path, remote_user,
      host, remote_addr, connected, persistent, lastOp, pidChanged,
      appliedHostvars>>

----------------------------------------------------------------------------
(* Bounds and input samples *)

MaxCmdLen == 2

None == <<"None">>

SeqsUpTo(S, n) == UNION {[1..k -> S] : k \in 0..n}

CmdChars == {"e", " ", "'"}

Cmds == SeqsUpTo(CmdChars, MaxCmdLen)

\* Standard output of the lookup pipeline: a PID line, nothing at all, or
\* blank lines
Outputs ==
    { <<"7", "\n">>, <<"7", "7", "\n">>, <<>>, <<"\n">> }

ReturnCodes == {0, 1}

\* What the remote side answers to a PID lookup: exit status and output
Answers ==
    {[returncode |-> 0, stdout |-> o] : o \in Outputs}
    \cup {[returncode |-> rc, stdout |-> o] :
             rc \in ReturnCodes \ {0}, o \in {<<>>, <<"7", "\n">>}}

NoAnswer == [returncode |-> 0, stdout |-> <<>>]

RemotePaths == { <<"e">>, <<"/", "e">>, <<"/", "/", "e", "/", "e">> }

LocalPaths == { <<"t">> }

C1Name == <<"c", "1">>

H1Name == <<"h", "1">>

H1Addr == <<"1", "0">>

ContainerTypes == { <<"l", "x", "c">>, <<"k", "v", "m">> }

ContainerNames == { None, C1Name, H1Name }

PhysicalHosts == { None, H1Name }

ChrootPaths == { None, <<"/", "s">> }

RemoteUsers == { None, <<>>, <<"u">> }

LogicalAddrs == { C1Name }

EmptyDict == [k \in {} |-> <<>>]

AddrMaps == { [k \in {H1Name} |-> H1Addr], [k \in {C1Name} |-> <<"9">>] }

\* hostvars argument: None (the default), or a dict that may or may not
\* have the key 'physical_host_addrs'.
HostvarsArgs ==
    {[isNone |-> TRUE, hasAddrs |-> FALSE, addrs |-> EmptyDict],
     [isNone |-> FALSE, hasAddrs |-> FALSE, addrs |-> EmptyDict]}
    \cup {[isNone |-> FALSE, hasAddrs |-> TRUE, addrs |-> m] : m \in AddrMaps}

NoHostvars == [isNone |-> TRUE, hasAddrs |-> FALSE, addrs |-> EmptyDict]

----------------------------------------------------------------------------
(* Python string primitives *)

RECURSIVE PercentFormat(_, _)
\* fmt % args for a format string whose only conversions are %s: the text
\* up to the first conversion, the first argument, then the rest formatted
\* with the remaining arguments
PercentFormat(fmt, args) ==
    IF \A i \in 1..Len(fmt) : fmt[i] # "%s" THEN fmt
    ELSE LET i == CHOOSE k \in 1..Len(fmt) :
                      fmt[k] = "%s" /\ \A j \in 1..(k - 1) : fmt[j] # "%s"
         IN SubSeq(fmt, 1, i - 1) \o Head(args)
            \o PercentFormat(SubSeq(fmt, i + 1, Len(fmt)), Tail(args))

Whitespace == {" ", "\t", "\n", "\r", "\f"}

RECURSIVE lstrip(_, _)
lstrip(s, chars) ==
    IF s # <<>> /\ Head(s) \in chars THEN lstrip(Tail(s), chars) ELSE s

RECURSIVE rstrip(_, _)
rstrip(s, chars) ==
    IF s # <<>> /\ s[Len(s)] \in chars
    THEN rstrip(SubSeq(s, 1, Len(s) - 1), chars)
    ELSE s

strip(s) == rstrip(lstrip(s, Whitespace), Whitespace)

sep == "/"

\* os.path.join(a, b) of posixpath
path_join(a, b) ==
    IF b # <<>> /\ Head(b) = sep THEN b
    ELSE IF a = <<>> \/ a[Len(a)] = sep THEN a \o b
    ELSE a \o <<sep>> \o b

Ascii ==
    {"a", "b", "c", "d", "e", "f", "g", "h", "i", "j", "k", "l", "m", "n",
     "o", "p", "q", "r", "s", "t", "u", "v", "w", "x", "y", "z", "A", "B",
     "C", "D", "E", "F", "G", "H", "I", "J", "K", "L", "M", "N", "O", "P",
     "Q", "R", "S", "T", "U", "V", "W", "X", "Y", "Z", "0", "1", "2", "3",
     "4", "5", "6", "7", "8", "9", "@", "%", "_", "-", "+", "=", ":", ",",
     ".", "/", " ", "'", "\"", "\\", "\n", "\t", "\r", "|", "{", "}", "$"}

RECURSIVE to_bytes(_)
\* SSH.to_bytes(text, errors='surrogate_or_strict'): the UTF-8 encoding; an
\* ASCII character is the one byte of the same value, any other character
\* becomes a multi-byte sequence.
to_bytes(s) ==
    IF s = <<>> THEN <<>>
    ELSE (IF Head(s) \in Ascii THEN <<Head(s)>> ELSE <<"\\x", Head(s)>>)
         \o to_bytes(Tail(s))

SafeChars ==
    {"a", "b", "c", "d", "e", "f", "g", "h", "i", "j", "k", "l", "m", "n",
     "o", "p", "q", "r", "s", "t", "u", "v", "w", "x", "y", "z", "A", "B",
     "C", "D", "E", "F", "G", "H", "I", "J", "K", "L", "M", "N", "O", "P",
     "Q", "R", "S", "T", "U", "V", "W", "X", "Y", "Z", "0", "1", "2", "3",
     "4", "5", "6", "7", "8", "9", "@", "%", "_", "-", "+", "=", ":", ",",
     ".", "/"}

QUOTE_ESC == << "'", "\"", "'", "\"", "'" >>

RECURSIVE replace_quote(_)
\* s.replace("'", "'\"'\"'")
replace_quote(s) ==
    IF s = <<>> THEN <<>>
    ELSE (IF Head(s) = "'" THEN QUOTE_ESC ELSE <<Head(s)>>)
         \o replace_quote(Tail(s))

shlex_quote(s) ==
    IF s = <<>> THEN <<"'", "'">>
    ELSE IF \A i \in 1..Len(s) : s[i] \in SafeChars THEN s
    ELSE <<"'">> \o replace_quote(s) \o <<"'">>

----------------------------------------------------------------------------
(* Literals of the plugin *)

LXC == <<"l", "x", "c">>

ROOT_USER == << "r", "o", "o", "t" >>

LXC_ATTACH_FMT ==
    << "l", "x", "c", "-", "a", "t", "t", "a", "c", "h", " ", "-", "-", "c",
       "l", "e", "a", "r", "-", "e", "n", "v", " ", "-", "-", "n", "a", "m",
       "e", " ", "%s" >>

SU_FMT ==
    << "%s", " ", "-", "-", " ", "s", "u", " ", "-", " ", "%s", " ", "-",
       "c", " ", "%s" >>

CHROOT_FMT == << "c", "h", "r", "o", "o", "t", " ", "%s" >>

JOIN_FMT == << "%s", " ", "%s" >>

LXC_INFO_FMT ==
    << "l", "x", "c", "-", "i", "n", "f", "o", " ", "-", "-", "n", "a", "m",
       "e", " ", "%s", " ", "-", "-", "p", "i", "d", " ", "|", " ", "a", "w",
       "k", " ", "'", "/", "P", "I", "D", ":", "/", " ", "{", "p", "r", "i",
       "n", "t", " ", "$", "2", "}", "'" >>

PROC_ROOT_FMT ==
    << "/", "p", "r", "o", "c", "/", "%s", "/", "r", "o", "o", "t" >>

NO_INFO_FMT ==
    << "N", "o", " ", "v", "a", "l", "i", "d", " ", "c", "o", "n", "t", "a",
       "i", "n", "e", "r", " ", "i", "n", "f", "o", " ", "w", "a", "s", " ",
       "f", "o", "u", "n", "d", " ", "f", "o", "r", " ", "c", "o", "n", "t",
       "a", "i", "n", "e", "r", " ", "\"", "%s", "\"", " ", "P", "l", "e",
       "a", "s", "e", " ", "c", "h", "e", "c", "k", " ", "t", "h", "e", " ",
       "s", "t", "a", "t", "e", " ", "o", "f", " ", "t", "h", "e", " ", "c",
       "o", "n", "t", "a", "i", "n", "e", "r", "." >>

----------------------------------------------------------------------------
(* Call records *)

NoSuper == [name |-> "none", a |-> <<>>, b |-> <<>>]

NoError == [type |-> "none", message |-> <<>>]

\* What one handler call did: its arguments, the commands it ran through
\* self._run, the call it delegated to the base transport, the exception it
\* ended in, and the processes it spawned and waited for.
OpRecord(op, args, runs, super, raised, popen) ==
    [op |-> op, args |-> args, runs |-> runs, super |-> super,
     raised |-> raised, popen |-> popen]

\* The base transport's handlers may mark the session connected and
\* (through _build_command, when ControlPersist is configured) persistent.
TransportEffect ==
    /\ connected' \in {connected, TRUE}
    /\ persistent' \in {persistent, TRUE}

BuildCommandEffect ==
    /\ connected' = connected
    /\ persistent' \in {persistent, TRUE}

\* A handler that issues no PID lookup
NoLookupStep == pidChanged' = FALSE

----------------------------------------------------------------------------
(* Indirection predicates *)

_chroot_check ==
    IF chroot_path # None
    THEN IF physical_host # None THEN TRUE ELSE FALSE
    ELSE FALSE

_container_check_no_self_test ==
    container_type = LXC /\ container_name # None /\ physical_host # None

_container_check ==
    IF container_type # LXC THEN FALSE
    ELSE IF container_name # None
         THEN IF physical_host # None
              THEN IF container_name # physical_host THEN TRUE ELSE FALSE
              ELSE FALSE
         ELSE FALSE

----------------------------------------------------------------------------
(* __init__ *)

Init ==
    /\ container_type \in ContainerTypes
    /\ container_name \in ContainerNames
    /\ physical_host \in PhysicalHosts
    /\ chroot_path \in ChrootPaths
    /\ remote_user \in RemoteUsers
    /\ remote_addr \in LogicalAddrs
    /\ host = remote_addr
    /\ connected = FALSE
    /\ persistent = FALSE
    /\ lastOp = OpRecord("__init__", <<>>, <<>>, NoSuper, NoError, <<>>)
    /\ pidChanged = FALSE
    /\ appliedHostvars = NoHostvars

----------------------------------------------------------------------------
(* exec_command *)

container_user_always_root == ROOT_USER

\* lines 87-90: truthiness of remote_user, then to_bytes
container_user ==
    IF remote_user # None /\ remote_user # <<>>
    THEN to_bytes(remote_user)
    ELSE ROOT_USER

\* lines 85-111
container_wrap(cmd) ==
    IF _container_check
    THEN LET lxc_command == PercentFormat(LXC_ATTACH_FMT, <<container_name>>)
         IN PercentFormat(SU_FMT,
                          <<lxc_command, container_user, shlex_quote(cmd)>>)
    ELSE cmd

\* lines 113-115
chroot_wrap(cmd) ==
    IF _chroot_check
    THEN LET chroot_command == PercentFormat(CHROOT_FMT, <<chroot_path>>)
         IN PercentFormat(JOIN_FMT, <<chroot_command, cmd>>)
    ELSE cmd

exec_command_chroot_inside(cmd) ==
    /\ lastOp' = OpRecord("exec_command", <<cmd>>, <<>>,
                          [name |-> "exec_command",
                           a |-> container_wrap(chroot_wrap(cmd)), b |-> <<>>],
                          NoError, <<>>)
    /\ TransportEffect
    /\ NoLookupStep
    /\ UNCHANGED <<descriptor, remote_user, host, remote_addr,
                   appliedHostvars>>

exec_command(cmd) ==
    /\ lastOp' = OpRecord("exec_command", <<cmd>>, <<>>,
                          [name |-> "exec_command",
                           a |-> chroot_wrap(container_wrap(cmd)), b |-> <<>>],
                          NoError, <<>>)
    /\ TransportEffect
    /\ NoLookupStep
    /\ UNCHANGED <<descriptor, remote_user, host, remote_addr,
                   appliedHostvars>>

----------------------------------------------------------------------------
(* set_host_overrides *)

\* d.get(k, default)
dict_get(d, k, default) == IF k \in DOMAIN d THEN d[k] ELSE default

\* lines 77-79: the address of the physical host
resolve_physical_host(hostvars) ==
    LET physical_host_addrs ==
            IF hostvars.hasAddrs THEN hostvars.addrs ELSE EmptyDict
    IN dict_get(physical_host_addrs, physical_host, physical_host)

set_host_overrides_host_only(h, hostvars) ==
    /\ IF _container_check \/ _chroot_check
       THEN IF hostvars.isNone
            THEN /\ lastOp' = OpRecord("set_host_overrides", <<h, hostvars>>,
                                       <<>>, NoSuper,
                                       [type |-> "AttributeError",
                                        message |-> <<>>], <<>>)
                 /\ UNCHANGED <<host, remote_addr, appliedHostvars>>
            ELSE /\ host' = resolve_physical_host(hostvars)
                 /\ remote_addr' = remote_addr
                 /\ appliedHostvars' = hostvars
                 /\ lastOp' = OpRecord("set_host_overrides", <<h, hostvars>>,
                                       <<>>, NoSuper, NoError, <<>>)
       ELSE /\ lastOp' = OpRecord("set_host_overrides", <<h, hostvars>>,
                                  <<>>, NoSuper, NoError, <<>>)
            /\ UNCHANGED <<host, remote_addr, appliedHostvars>>
    /\ NoLookupStep
    /\ UNCHANGED <<descriptor, remote_user, connected, persistent>>

\* hostvars.get on the default hostvars=None raises AttributeError before
\* anything is assigned.
set_host_overrides(h, hostvars) ==
    /\ IF _container_check \/ _chroot_check
       THEN IF hostvars.isNone
            THEN /\ lastOp' = OpRecord("set_host_overrides", <<h, hostvars>>,
                                       <<>>, NoSuper,
                                       [type |-> "AttributeError",
                                        message |-> <<>>], <<>>)
                 /\ UNCHANGED <<host, remote_addr, appliedHostvars>>
            ELSE /\ host' = resolve_physical_host(hostvars)
                 /\ remote_addr' = resolve_physical_host(hostvars)
                 /\ appliedHostvars' = hostvars
                 /\ lastOp' = OpRecord("set_host_overrides", <<h, hostvars>>,
                                       <<>>, NoSuper, NoError, <<>>)
       ELSE /\ lastOp' = OpRecord("set_host_overrides", <<h, hostvars>>,
                                  <<>>, NoSuper, NoError, <<>>)
            /\ UNCHANGED <<host, remote_addr, appliedHostvars>>
    /\ NoLookupStep
    /\ UNCHANGED <<descriptor, remote_user, connected, persistent>>

----------------------------------------------------------------------------
(* _container_path_pad, fetch_file, put_file *)

\* A lookup addressed by the physical host's identifier
_run_at_physical_host(returncode, stdout) ==
    [host |-> physical_host,
     command |-> PercentFormat(LXC_INFO_FMT, <<container_name>>),
     sudoable |-> FALSE,
     returncode |-> returncode,
     stdout |-> stdout]

\* lines 148-158: the command handed to self._run, with the exit status and
\* standard output the remote side answered
_run(returncode, stdout) ==
    [host |-> host,
     command |-> PercentFormat(LXC_INFO_FMT, <<container_name>>),
     sudoable |-> FALSE,
     returncode |-> returncode,
     stdout |-> stdout]

_container_path_pad_no_lstrip(path, returncode, stdout) ==
    [runs |-> <<_run(returncode, stdout)>>,
     raised |-> IF returncode = 0 THEN NoError
                ELSE [type |-> "AnsibleError",
                      message |-> PercentFormat(NO_INFO_FMT,
                                                <<container_name>>)],
     pad |-> IF returncode = 0
             THEN path_join(PercentFormat(PROC_ROOT_FMT, <<strip(stdout)>>),
                            path)
             ELSE <<>>]

_container_path_pad(path, returncode, stdout) ==
    [runs |-> <<_run(returncode, stdout)>>,
     raised |-> IF returncode = 0 THEN NoError
                ELSE [type |-> "AnsibleError",
                      message |-> PercentFormat(NO_INFO_FMT,
                                                <<container_name>>)],
     pad |-> IF returncode = 0
             THEN path_join(PercentFormat(PROC_ROOT_FMT, <<strip(stdout)>>),
                            lstrip(path, {sep}))
             ELSE <<>>]

\* The body shared by fetch_file (remote path first) and put_file (remote
\* path second): pad the remote path of a container target, then delegate.
Transfer(op, in_path, out_path, remote, r) ==
    /\ IF _container_check
       THEN IF r.raised.type = "none"
            THEN /\ lastOp' = OpRecord(op, <<in_path, out_path>>, r.runs,
                                       IF remote = "in"
                                       THEN [name |-> op, a |-> r.pad,
                                             b |-> out_path]
                                       ELSE [name |-> op, a |-> in_path,
                                             b |-> r.pad],
                                       NoError, <<>>)
                 /\ TransportEffect
            ELSE /\ lastOp' = OpRecord(op, <<in_path, out_path>>, r.runs,
                                       NoSuper, r.raised, <<>>)
                 /\ BuildCommandEffect
       ELSE /\ lastOp' = OpRecord(op, <<in_path, out_path>>, <<>>,
                                  [name |-> op, a |-> in_path,
                                   b |-> out_path],
                                  NoError, <<>>)
            /\ TransportEffect
    /\ pidChanged' = (/\ _container_check
                      /\ lastOp.runs # <<>>
                      /\ r.runs # <<>>
                      /\ lastOp.runs[1].stdout # r.runs[1].stdout)
    /\ UNCHANGED <<descriptor, remote_user, host, remote_addr,
                   appliedHostvars>>

\* A fetch_file that keeps the PID of an earlier lookup
fetch_file_cached(in_path, out_path, returncode, stdout) ==
    Transfer("fetch_file", in_path, out_path, "in",
             IF lastOp.runs # <<>> /\ lastOp.runs[1].returncode = 0
             THEN [_container_path_pad(in_path, 0, lastOp.runs[1].stdout)
                   EXCEPT !.runs = <<_run(returncode, stdout)>>]
             ELSE _container_path_pad(in_path, returncode, stdout))

fetch_file_ignores_failure(in_path, out_path, returncode, stdout) ==
    Transfer("fetch_file", in_path, out_path, "in",
             [_container_path_pad(in_path, returncode, stdout)
              EXCEPT !.raised = NoError])

fetch_file(in_path, out_path, returncode, stdout) ==
    Transfer("fetch_file", in_path, out_path, "in",
             _container_path_pad(in_path, returncode, stdout))

put_file(in_path, out_path, returncode, stdout) ==
    Transfer("put_file", in_path, out_path, "out",
             _container_path_pad(out_path, returncode, stdout))

----------------------------------------------------------------------------
(* close *)

STOP_ARGS == << <<"s", "s", "h">>, <<"-", "O">>, <<"s", "t", "o", "p">> >>

close_when_connected ==
    /\ IF connected
       THEN /\ lastOp' = OpRecord("close", <<>>, <<>>, NoSuper, NoError,
                                  <<[build_args |-> Append(STOP_ARGS, host),
                                     communicated |-> TRUE]>>)
            /\ BuildCommandEffect
       ELSE /\ lastOp' = OpRecord("close", <<>>, <<>>, NoSuper, NoError, <<>>)
            /\ UNCHANGED <<connected, persistent>>
    /\ NoLookupStep
    /\ UNCHANGED <<descriptor, remote_user, host, remote_addr,
                   appliedHostvars>>

close ==
    /\ IF connected /\ persistent
       THEN /\ lastOp' = OpRecord("close", <<>>, <<>>, NoSuper, NoError,
                                  <<[build_args |-> Append(STOP_ARGS, host),
                                     communicated |-> TRUE]>>)
            /\ BuildCommandEffect
       ELSE /\ lastOp' = OpRecord("close", <<>>, <<>>, NoSuper, NoError, <<>>)
            /\ UNCHANGED <<connected, persistent>>
    /\ NoLookupStep
    /\ UNCHANGED <<descriptor, remote_user, host, remote_addr,
                   appliedHostvars>>

----------------------------------------------------------------------------

\* An answer is drawn only for a call that issues the lookup.
LookupAnswers == IF _container_check THEN Answers ELSE {NoAnswer}

Next ==
    \/ \E cmd \in Cmds : exec_command(cmd)
    \/ \E h \in LogicalAddrs, hostvars \in HostvarsArgs :
          set_host_overrides(h, hostvars)
    \/ \E in_path \in RemotePaths, out_path \in LocalPaths,
          answer \in LookupAnswers :
          fetch_file(in_path, out_path, answer.returncode, answer.stdout)
    \/ \E in_path \in LocalPaths, out_path \in RemotePaths,
          answer \in LookupAnswers :
          put_file(in_path, out_path, answer.returncode, answer.stdout)
    \/ close

Spec == Init /\ [][Next]_vars

----------------------------------------------------------------------------
(* Vocabulary of the properties: the expected texts spelled out, and the    *)
(* string relations described rather than computed.                        *)

FileOps == {"fetch_file", "put_file"}

ContainerTarget ==
    /\ container_type = <<"l", "x", "c">>
    /\ container_name # None
    /\ physical_host # None
    /\ container_name # physical_host

ChrootTarget == chroot_path # None /\ physical_host # None

AttachPrefix ==
    << "l", "x", "c", "-", "a", "t", "t", "a", "c", "h", " ", "-", "-", "c",
       "l", "e", "a", "r", "-", "e", "n", "v", " ", "-", "-", "n", "a", "m",
       "e", " " >>

SuInfix == << " ", "-", "-", " ", "s", "u", " ", "-", " " >>

DashC == << " ", "-", "c", " " >>

ChrootPrefix == << "c", "h", "r", "o", "o", "t", " " >>

ProcPrefix == << "/", "p", "r", "o", "c", "/" >>

RootInfix == << "/", "r", "o", "o", "t", "/" >>

ExpectedUser ==
    IF remote_user = None \/ remote_user = <<>>
    THEN << "r", "o", "o", "t" >>
    ELSE remote_user

ExpectedWrapped(cmd) ==
    AttachPrefix \o container_name \o SuInfix \o ExpectedUser \o DashC
    \o shlex_quote(cmd)

RECURSIVE ShellLex(_, _, _, _, _, _)
\* The words a POSIX shell splits s into: blanks separate words outside
\* quotes, '...' and "..." group (no backslash occurs in the inputs).
ShellLex(s, i, mode, cur, inword, words) ==
    IF i > Len(s) THEN (IF inword THEN Append(words, cur) ELSE words)
    ELSE LET c == s[i]
         IN CASE mode = "n" /\ c \in {" ", "\t", "\n"} ->
                     ShellLex(s, i + 1, "n", <<>>, FALSE,
                              IF inword THEN Append(words, cur) ELSE words)
              [] mode = "n" /\ c = "'" ->
                     ShellLex(s, i + 1, "s", cur, TRUE, words)
              [] mode = "n" /\ c = "\"" ->
                     ShellLex(s, i + 1, "d", cur, TRUE, words)
              [] mode = "s" /\ c = "'" ->
                     ShellLex(s, i + 1, "n", cur, TRUE, words)
              [] mode = "d" /\ c = "\"" ->
                     ShellLex(s, i + 1, "n", cur, TRUE, words)
              [] OTHER ->
                     ShellLex(s, i + 1, mode, Append(cur, c), TRUE, words)

ShellWords(s) == ShellLex(s, 1, "n", <<>>, FALSE, <<>>)

ExpectedArgv(cmd) ==
    << <<"l", "x", "c", "-", "a", "t", "t", "a", "c", "h">>,
       <<"-", "-", "c", "l", "e", "a", "r", "-", "e", "n", "v">>,
       <<"-", "-", "n", "a", "m", "e">>,
       container_name,
       <<"-", "-">>,
       <<"s", "u">>,
       <<"-">>,
       ExpectedUser,
       <<"-", "c">>,
       cmd >>

Blank == {" ", "\t", "\n", "\r", "\f"}

\* t is s without its leading and trailing blanks
IsTrimOf(t, s) ==
    \E i \in 1..(Len(s) + 1), j \in 0..Len(s) :
        /\ t = SubSeq(s, i, j)
        /\ \A k \in 1..(i - 1) : s[k] \in Blank
        /\ \A k \in (j + 1)..Len(s) : s[k] \in Blank
        /\ t = <<>> \/ (t[1] \notin Blank /\ t[Len(t)] \notin Blank)

\* r is path without its leading separators
IsLeadStripped(r, path) ==
    \E i \in 1..(Len(path) + 1) :
        /\ r = SubSeq(path, i, Len(path))
        /\ \A k \in 1..(i - 1) : path[k] = "/"
        /\ r = <<>> \/ r[1] # "/"

Trims(s) == {SubSeq(s, i, j) : i \in 1..(Len(s) + 1), j \in 0..Len(s)}

Suffixes(s) == {SubSeq(s, i, Len(s)) : i \in 1..(Len(s) + 1)}

\* padded is /proc/<trim(out)>/root/<path without leading separators>
IsPadOf(padded, out, path) ==
    \E t \in Trims(out), r \in Suffixes(path) :
        /\ IsTrimOf(t, out)
        /\ IsLeadStripped(r, path)
        /\ padded = ProcPrefix \o t \o RootInfix \o r

Contains(s, sub) ==
    \E i \in 1..(Len(s) - Len(sub) + 1) :
        SubSeq(s, i, i + Len(sub) - 1) = sub

\* The remote path of a transfer: first argument of fetch_file, second of
\* put_file; the local path is the other one.
RemoteArg(rec) == IF rec.op = "fetch_file" THEN rec.args[1] ELSE rec.args[2]

LocalArg(rec) == IF rec.op = "fetch_file" THEN rec.args[2] ELSE rec.args[1]

RemoteSent(rec) == IF rec.op = "fetch_file" THEN rec.super.a ELSE rec.super.b

LocalSent(rec) == IF rec.op = "fetch_file" THEN rec.super.b ELSE rec.super.a

ExpectedAddr(hostvars) ==
    IF hostvars.hasAddrs /\ physical_host \in DOMAIN hostvars.addrs
    THEN hostvars.addrs[physical_host]
    ELSE physical_host

----------------------------------------------------------------------------
(* C1 *)

\* C1: the container predicate is true exactly when container_type is
\* "lxc", container_name and physical_host are both set, and they differ;
\* so it is false when the two names are equal and when the type is not
\* "lxc", whatever the other fields are.
C1_ContainerPredicate ==
    /\ _container_check <=> ContainerTarget
    /\ container_name = physical_host => ~_container_check
    /\ container_type # <<"l", "x", "c">> => ~_container_check
    /\ lastOp.op = "exec_command" /\ ~ContainerTarget /\ ~ChrootTarget
           => lastOp.super.a = lastOp.args[1]

C1_Witness ==
    /\ container_type = <<"l", "x", "c">>
    /\ container_name # None
    /\ container_name = physical_host
    /\ chroot_path = None
    /\ lastOp.op = "exec_command"
    /\ lastOp.super.a = lastOp.args[1]

----------------------------------------------------------------------------
(* C2 *)

\* C2: on a container target that is not a chroot target, exec_command
\* hands the transport exactly
\* lxc-attach --clear-env --name <container_name> -- su - <user> -c <quoted cmd>
\* with <user> the remote_user when that is non-empty and root otherwise,
\* and a shell splits that text into ten words of which the last, the -c
\* argument, is the original command.
C2_ContainerCommand ==
    lastOp.op = "exec_command" /\ ContainerTarget /\ ~ChrootTarget
        => /\ lastOp.super.name = "exec_command"
           /\ lastOp.super.a = ExpectedWrapped(lastOp.args[1])
           /\ ShellWords(lastOp.super.a) = ExpectedArgv(lastOp.args[1])

C2_Witness ==
    /\ lastOp.op = "exec_command"
    /\ ContainerTarget
    /\ ~ChrootTarget
    /\ remote_user = <<"u">>
    /\ lastOp.args[1] = <<"e", "'">>
    /\ ShellWords(lastOp.super.a)[8] = <<"u">>
    /\ ShellWords(lastOp.super.a)[10] = <<"e", "'">>

----------------------------------------------------------------------------
(* C3 *)

\* C3: the command exec_command hands the transport is the original
\* command, container-wrapped iff the container predicate holds, and then
\* prefixed with "chroot <chroot_path> " iff chroot_path and physical_host
\* are set: chroot is outermost, and with neither predicate the command is
\* passed on unchanged.
C3_RewriteOrder ==
    lastOp.op = "exec_command"
        => LET cmd == lastOp.args[1]
               inner == IF ContainerTarget THEN ExpectedWrapped(cmd) ELSE cmd
           IN /\ lastOp.super.name = "exec_command"
              /\ lastOp.super.a =
                    IF ChrootTarget
                    THEN ChrootPrefix \o chroot_path \o <<" ">> \o inner
                    ELSE inner

C3_Witness ==
    /\ lastOp.op = "exec_command"
    /\ ContainerTarget
    /\ ChrootTarget
    /\ lastOp.args[1] = <<"e", " ">>
    /\ SubSeq(lastOp.super.a, 1, 10) =
          <<"c", "h", "r", "o", "o", "t", " ", "/", "s", " ">>
    /\ SubSeq(lastOp.super.a, 11, Len(lastOp.super.a)) =
          ExpectedWrapped(lastOp.args[1])

----------------------------------------------------------------------------
(* C4 *)

----------------------------------------------------------------------------
(* C5 *)

\* C5: on a container target whose PID lookup exits 0 with output s, a
\* transfer is delegated with the remote path replaced by
\* /proc/<trim(s)>/root/<path without leading separators> and the local
\* path unchanged; on any other target both paths are delegated unchanged
\* and no lookup is issued.
C5_PathPad ==
    lastOp.op \in FileOps
        => IF ContainerTarget
           THEN Len(lastOp.runs) >= 1 /\ lastOp.runs[1].returncode = 0
                   => /\ lastOp.super.name = lastOp.op
                      /\ IsPadOf(RemoteSent(lastOp), lastOp.runs[1].stdout,
                                 RemoteArg(lastOp))
                      /\ LocalSent(lastOp) = LocalArg(lastOp)
           ELSE /\ lastOp.runs = <<>>
                /\ lastOp.super.name = lastOp.op
                /\ lastOp.super.a = lastOp.args[1]
                /\ lastOp.super.b = lastOp.args[2]

C5_Witness ==
    /\ lastOp.op = "put_file"
    /\ ContainerTarget
    /\ lastOp.runs[1].returncode = 0
    /\ lastOp.runs[1].stdout = <<"7", "7", "\n">>
    /\ lastOp.args[2] = <<"/", "/", "e", "/", "e">>
    /\ lastOp.super.b =
          <<"/", "p", "r", "o", "c", "/", "7", "7", "/", "r", "o", "o", "t",
            "/", "e", "/", "e">>
    /\ lastOp.super.a = lastOp.args[1]

----------------------------------------------------------------------------
(* C6 *)

\* C6: on a container target, a transfer whose PID lookup exits non-zero
\* ends in an AnsibleError whose message contains the container name, is
\* not delegated to the transport, and has issued exactly one lookup.
C6_LookupFailure ==
    /\ lastOp.op \in FileOps
    /\ ContainerTarget
    /\ Len(lastOp.runs) >= 1
    /\ lastOp.runs[1].returncode # 0
    => /\ lastOp.raised.type = "AnsibleError"
       /\ Contains(lastOp.raised.message, container_name)
       /\ lastOp.super.name = "none"
       /\ Len(lastOp.runs) = 1

C6_Witness ==
    /\ lastOp.op = "fetch_file"
    /\ ContainerTarget
    /\ lastOp.runs[1].returncode = 1
    /\ lastOp.raised.type = "AnsibleError"
    /\ lastOp.super.name = "none"

----------------------------------------------------------------------------
(* C7 *)

\* C7: every transfer on a container target issues exactly one PID lookup
\* of its own and, when it delegates, pads the path with the PID that very
\* lookup returned, whatever the call before it looked up or failed with.
C7_FreshLookup ==
    lastOp.op \in FileOps /\ ContainerTarget
        => /\ Len(lastOp.runs) = 1
           /\ lastOp.raised.type = "none" <=> lastOp.runs[1].returncode = 0
           /\ lastOp.raised.type = "none"
                 => IsPadOf(RemoteSent(lastOp), lastOp.runs[1].stdout,
                            RemoteArg(lastOp))

C7_Witness ==
    /\ lastOp.op = "fetch_file"
    /\ ContainerTarget
    /\ pidChanged
    /\ lastOp.runs[1].stdout = <<"7", "7", "\n">>
    /\ lastOp.super.a =
          <<"/", "p", "r", "o", "c", "/", "7", "7", "/", "r", "o", "o", "t",
            "/", "e">>

----------------------------------------------------------------------------
(* C8 *)

\* C8: close spawns the "ssh -O stop <host>" control command and waits for
\* it exactly when the session is connected and persistent at the call;
\* otherwise it spawns nothing.  Either way it leaves the descriptor, the
\* dialed address and the session flags as they were, and what it does
\* depends on the flags and the host only.
C8_Close ==
    [][lastOp'.op = "close"
          => /\ lastOp'.popen =
                   IF connected /\ persistent
                   THEN <<[build_args |->
                              << <<"s", "s", "h">>, <<"-", "O">>,
                                 <<"s", "t", "o", "p">>, host >>,
                           communicated |-> TRUE]>>
                   ELSE <<>>
             /\ lastOp'.runs = <<>>
             /\ lastOp'.super.name = "none"
             /\ descriptor' = descriptor
             /\ <<host, remote_addr, remote_user>>'
                   = <<host, remote_addr, remote_user>>
             /\ <<connected, persistent>>' = <<connected, persistent>>]_vars

C8_Witness ==
    /\ lastOp.op = "close"
    /\ connected
    /\ persistent
    /\ Len(lastOp.popen) = 1
    /\ lastOp.popen[1].communicated

----------------------------------------------------------------------------
(* C9 *)

\* C9 as claimed: every PID lookup is run against the resolved address of
\* the physical host (its entry in physical_host_addrs, else its
\* identifier), never the logical address, whether or not
\* set_host_overrides was called first.
C9_LookupAtPhysicalHost ==
    lastOp.op \in FileOps /\ Len(lastOp.runs) >= 1
        => lastOp.runs[1].host = ExpectedAddr(appliedHostvars)

\* C9 amended: every PID lookup is run against the address the connection
\* dials (self.host): the resolved address of the physical host once
\* set_host_overrides has been called with an address map, and the address
\* the connection was constructed with as long as it has not.
C9_LookupAtDialedHost ==
    lastOp.op \in FileOps /\ Len(lastOp.runs) >= 1
        => /\ lastOp.runs[1].host = host
           /\ host = remote_addr
           /\ IF appliedHostvars.isNone
              THEN host \in LogicalAddrs
              ELSE host = ExpectedAddr(appliedHostvars)

C9_Witness ==
    /\ lastOp.op \in FileOps
    /\ Len(lastOp.runs) = 1
    /\ ~appliedHostvars.isNone
    /\ appliedHostvars.hasAddrs
    /\ physical_host \in DOMAIN appliedHostvars.addrs
    /\ lastOp.runs[1].host = <<"1", "0">>

----------------------------------------------------------------------------
(* C10 *)

\* C10: a transfer delegated for a container target goes to
\* /proc/<pid>/root/<rest> with a non-empty <pid>; a lookup that exits 0
\* with empty or blank output never leads to a transfer under /proc//root/.
C10_NonEmptyPid ==
    lastOp.op \in FileOps /\ ContainerTarget /\ lastOp.super.name # "none"
        => \E t \in Trims(RemoteSent(lastOp)) , r \in Suffixes(RemoteSent(lastOp)) :
              /\ t # <<>>
              /\ \A k \in 1..Len(t) : t[k] # "/"
              /\ RemoteSent(lastOp) = ProcPrefix \o t \o RootInfix \o r

====
